---- MODULE Spec2Model ----
(***************************************************************************)
(* BulkRR: a directory watcher that drains CSV files, one bounded chunk    *)
(* per dispatch, into one result file with a pool of worker goroutines.    *)
(*                                                                         *)
(* Two Go variants of the service are modelled, selected by `variant`:     *)
(*   "polling"  src/unnamed/part_001    (two sleeping loops)     Spec      *)
(*   "event"    src/server-go/main.go   (select loops + channel) SpecEvent *)
(* They share the tracking table, the picker and the dispatch code and     *)
(* differ in Worker.readFile and in the scan loop.                         *)
(*                                                                         *)
(* Goroutines: the scan loop ("scan"), the dispatch loop ("dispatch") and  *)
(* one goroutine per dispatched Worker.  Every access to shared state that *)
(* the code performs outside s.mu is a separate step of the model, so the  *)
(* unsynchronised activeWorkers++ / activeWorkers-- are a read step and a  *)
(* write step each.                                                        *)
(*                                                                         *)
(* The result file is written and never read by the service.  Its rows     *)
(* are recorded, one step per Fprintf, by the specification of the sink    *)
(* (SpecSink); the other specifications keep the chunk in the worker.      *)
(***************************************************************************)
EXTENDS Integers, Sequences, FiniteSets, Bags, TLC

\* ---------------------------------------------------------------- bounds
\* Number of CSV files that can ever appear in the watched directory.
NumFiles == 2
\* Number of workers the dispatch loop starts in one behaviour.
MaxDispatches == 4

\* ------------------------------------------------------ program constants
MAX_CHUNK_SIZE == 3
\* capacity of the buffered channel newFilesEvent
NewFilesEventCap == 10
\* pickNextFile's "" (no file)
NoFile == 0

Files == 1..NumFiles

\* A listing with more new files than newFilesEvent holds: the send of
\* file NewFilesEventCap + 1 finds the channel full.
BurstFiles == NewFilesEventCap + 2

NotRead == "not_read"
Reading == "reading"
Completed == "completed"

\* A CSV record is its sequence of fields.
DataRow == <<"id", "name">>
BlankRow == <<"", "">>
\* A line with one field where the first line of the file has two:
\* csv.Reader.Read returns ErrFieldCount for it.
BadRow == <<"id">>

RowsOf(n) == [i \in 1..n |-> DataRow]

\* The values main() and its callers may pass as maxThreads.
MaxThreadsChoices == {1, 2}

Goroutines == {"dispatch", "scan"}

VARIABLES
    variant,           \* which of the two Go programs runs
    maxThreads,        \* FileWatcherService.maxThreads
    content,           \* the rows of every file of the data directory
    lock,              \* FileWatcherService.lock: file -> FileLock
    filesQueue,        \* FileWatcherService.filesQueue
    currentFileIndex,  \* FileWatcherService.currentFileIndex (0-based)
    activeWorkers,     \* FileWatcherService.activeWorkers
    newFilesEvent,     \* FileWatcherService.newFilesEvent (buffered channel)
    scanBlocked,       \* the scan loop is blocked sending on newFilesEvent
    disp,              \* per goroutine: its position inside processFiles
    workers,           \* the Workers in flight: a bag of goroutine states
    dispatched,        \* number of Workers started so far
    rejected,          \* log: setFileStatus printed "Cannot change status"
    resultFile,        \* the rows of RESULT_FILE_PATH, in the order written
    decrements,        \* log: executions of activeWorkers-- that have ended
    stuck,             \* observer: the files left behind by a failed open
    watch,             \* observer: what is being watched, "off", "passes"
                       \* (round-robin passes), "sequence" (seqClean),
                       \* "errors" (stuck), "sink" (resultFile) or
                       \* "drain" (unbounded runs, no counters kept)
    seqClean,          \* observer: every dispatch so far found no worker in
                       \* flight on its file, and no open failed
    passN,             \* observer: size of the round-robin pass under watch
    passPicks,         \* observer: files picked in that pass, in order
    passClean          \* observer: no file became Completed during the pass

vars == <<variant, maxThreads, content, lock, filesQueue, currentFileIndex,
          activeWorkers, newFilesEvent, scanBlocked, disp, workers,
          dispatched, rejected, seqClean, watch, passN, passPicks, passClean,
          resultFile, decrements, stuck>>

config == <<variant, maxThreads, content, watch>>
observer == <<passN, passPicks, passClean>>
history == <<resultFile, decrements, stuck>>

FileLock(status, n) == [Status |-> status, ReadLinesNumber |-> n]

IdleDisp == [pc |-> "idle", file |-> NoFile, off |-> 0, tmp |-> 0]

\* ------------------------------------------------------------ pure code

\* isFileTracked that finds no file tracked
isFileTrackedNever(lk, file) == FALSE

\* isFileTracked: the file is a key of s.lock
isFileTracked(lk, file) == file \in DOMAIN lk

\* isEmptyLine that finds no record empty
isEmptyLineNever(record) == FALSE

\* isEmptyLine: every field of the record is the empty string
isEmptyLine(record) == \A k \in 1..Len(record) : record[k] = ""

\* setFileStatus's guard: the call is refused and logged
setFileStatusRefuses(lk, file, status) ==
    lk[file].Status = Completed /\ status # Completed

\* setFileStatus without its Completed guard
setFileStatusUnguarded(lk, file, status, n) ==
    [lk EXCEPT ![file] = FileLock(status, n)]

\* setFileStatus: the new tracking table
setFileStatus(lk, file, status, n) ==
    IF setFileStatusRefuses(lk, file, status)
    THEN lk
    ELSE [lk EXCEPT ![file] = FileLock(status, n)]

\* pickNextFile's loop that leaves the cursor on the file it returns
RECURSIVE pickProbeStay(_, _, _, _)
pickProbeStay(q, lk, cur, i) ==
    IF i >= Len(q)
    THEN [file |-> NoFile, cursor |-> cur]
    ELSE LET index == (cur + i) % Len(q)
             currentFile == q[index + 1]
         IN  IF lk[currentFile].Status # Completed
             THEN [file |-> currentFile, cursor |-> index]
             ELSE pickProbeStay(q, lk, cur, i + 1)

\* pickNextFile: probe i of the circular scan
RECURSIVE pickProbe(_, _, _, _)
pickProbe(q, lk, cur, i) ==
    IF i >= Len(q)
    THEN [file |-> NoFile, cursor |-> cur]
    ELSE LET index == (cur + i) % Len(q)
             currentFile == q[index + 1]
         IN  IF lk[currentFile].Status # Completed
             THEN [file |-> currentFile, cursor |-> (index + 1) % Len(q)]
             ELSE pickProbe(q, lk, cur, i + 1)

\* pickNextFile that leaves currentFileIndex where it was
pickNextFileNoAdvance(q, lk, cur) ==
    IF Len(q) = 0
    THEN [file |-> NoFile, cursor |-> cur]
    ELSE [pickProbe(q, lk, cur, 0) EXCEPT !.cursor = cur]

pickNextFile(q, lk, cur) ==
    IF Len(q) = 0
    THEN [file |-> NoFile, cursor |-> cur]
    ELSE pickProbe(q, lk, cur, 0)

\* the capacity test with > for >=
atCapacityOffByOne(active, max) == active > max

\* processFiles' capacity test
atCapacity(active, max) == active >= max

\* reader.Read() on record i returns a parse error: the reader takes the
\* number of fields from the first record and refuses a record with another
\* number (csv.ErrFieldCount)
readError(recs, i) == Len(recs[i]) # Len(recs[1])

\* Worker.readFile's read loop; i is the next record of the file, rows the
\* positions of the records collected so far.  exit says which break left
\* the loop: io.EOF, a parse error, or a full chunk.
RECURSIVE readLoop(_, _, _, _, _, _)
readLoop(v, recs, i, readLines, rows, tempReadLines) ==
    IF i > Len(recs)
    THEN [readLines |-> readLines, rows |-> rows,
          tempReadLines |-> tempReadLines, exit |-> "eof"]
    ELSE IF readError(recs, i)
    THEN [readLines |-> readLines, rows |-> rows,
          tempReadLines |-> tempReadLines, exit |-> "error"]
    ELSE IF v = "event" /\ isEmptyLine(recs[i])
    THEN readLoop(v, recs, i + 1, readLines, rows, tempReadLines)
    ELSE IF readLines > 0
    THEN readLoop(v, recs, i + 1, readLines - 1, rows, tempReadLines)
    ELSE IF Len(rows) < MAX_CHUNK_SIZE
    THEN readLoop(v, recs, i + 1, readLines, Append(rows, i), tempReadLines + 1)
    ELSE [readLines |-> readLines, rows |-> rows,
          tempReadLines |-> tempReadLines, exit |-> "full"]

\* The offset readFile passes to setFileStatus.
newOffset(v, r) ==
    IF v = "event" THEN r.tempReadLines ELSE r.readLines + Len(r.rows)

\* The status readFile passes to setFileStatus.
newStatus(rows) == IF Len(rows) < MAX_CHUNK_SIZE THEN Completed ELSE NotRead

\* readFile up to its setFileStatus call, for a file opened with offset off
readChunk(v, recs, off) ==
    LET r == readLoop(v, recs, 1, off, <<>>, off)
    IN  [rows |-> r.rows, newOff |-> newOffset(v, r), st |-> newStatus(r.rows),
         exit |-> r.exit]

\* ------------------------------------------------------------- helpers

\* the distinct states of the workers in flight
Running == BagToSet(workers)

\* the workers in flight on file f
InFlightOn(f) == {w \in Running : w.file = f}

\* number of workers in flight
InFlightCount == BagCardinality(workers)

\* number of workers in flight on file f
InFlightCountOn(f) ==
    BagCardinality([w \in InFlightOn(f) |-> workers[w]])

\* The dispatch loop may start a worker: the specifications of bounded runs
\* stop after MaxDispatches workers; the specification of the drain runs
\* for ever, with ticks far enough apart for the worker of one tick to
\* have returned before the next.
MayDispatch ==
    IF watch = "drain" THEN workers = EmptyBag ELSE dispatched < MaxDispatches

\* a counter of the log, not kept in the runs that go on for ever
Count(n) == IF watch = "drain" THEN n ELSE n + 1

\* one worker leaves state w for state w2
Step(w, w2) == workers' = (workers (-) SetToBag({w})) (+) SetToBag({w2})

NonCompleted(lk) == {f \in DOMAIN lk : lk[f].Status # Completed}

\* the observer's flag: a file became Completed in this step of the pass
ObserveLock(lk2) ==
    passClean' = IF passN = 0 THEN passClean
                 ELSE (passClean /\ \A f \in DOMAIN lock :
                          lk2[f].Status = Completed => lock[f].Status = Completed)

\* --------------------------------------------------------------- Init

InitService ==
    /\ lock = <<>>
    /\ filesQueue = <<>>
    /\ currentFileIndex = 0
    /\ activeWorkers = 0
    /\ newFilesEvent = <<>>
    /\ scanBlocked = FALSE
    /\ disp = [g \in Goroutines |-> IdleDisp]
    /\ workers = EmptyBag
    /\ dispatched = 0
    /\ rejected = FALSE
    /\ seqClean = TRUE
    /\ passN = 0
    /\ passPicks = <<>>
    /\ passClean = TRUE
    /\ resultFile = <<>>
    /\ decrements = 0
    /\ stuck = {}

\* File contents of the general specification: short files, one of them
\* with a blank record and longer than a chunk.
SmallContents ==
    { <<DataRow>>, <<DataRow, BlankRow, DataRow, DataRow, DataRow>> }

\* File contents of the one-file specifications: 0 to 7 data rows, blank
\* rows only, and blank rows in between data rows.
RowContents ==
    { RowsOf(n) : n \in 0..7 } \cup
    { <<BlankRow>>, <<BlankRow, BlankRow>>,
      <<BlankRow, DataRow, BlankRow, DataRow, DataRow, DataRow, BlankRow, DataRow>> }

\* polling variant: NumFiles files of the same content, any interleaving
Init ==
    /\ variant = "polling"
    /\ maxThreads \in MaxThreadsChoices
    /\ content \in {[f \in Files |-> c] : c \in SmallContents}
    /\ watch = "off"
    /\ InitService

\* polling variant: one file of any of the row contents
InitRows ==
    /\ variant = "polling"
    /\ maxThreads \in MaxThreadsChoices
    /\ content \in [{1} -> RowContents]
    /\ watch = "sequence"
    /\ InitService

\* the event-driven variant: one file of any of the row contents
InitEvent ==
    /\ variant = "event"
    /\ maxThreads \in MaxThreadsChoices
    /\ content \in [{1} -> RowContents]
    /\ watch = "sequence"
    /\ InitService

\* polling variant: NumFiles files, the round-robin observer switched on
InitRR ==
    /\ variant = "polling"
    /\ maxThreads \in MaxThreadsChoices
    /\ content \in [Files -> {<<DataRow>>}]
    /\ watch = "passes"
    /\ InitService

\* polling variant: NumFiles files of two data rows, the rows written to
\* the result file recorded
InitSink ==
    /\ variant = "polling"
    /\ maxThreads \in MaxThreadsChoices
    /\ content \in [Files -> {RowsOf(2)}]
    /\ watch = "sink"
    /\ InitService

\* File contents with a malformed record after the first: in the first
\* chunk, at the start of the second, and past a full second chunk.
ErrContents ==
    { <<DataRow, BadRow, DataRow>>,
      <<DataRow, DataRow, DataRow, BadRow, DataRow>>,
      <<DataRow, DataRow, DataRow, DataRow, DataRow, DataRow, BadRow>>,
      RowsOf(4) }

\* polling variant: one file that may hold a malformed record, the files
\* whose open failed recorded
InitErr ==
    /\ variant = "polling"
    /\ maxThreads \in MaxThreadsChoices
    /\ content \in [{1} -> ErrContents]
    /\ watch = "errors"
    /\ InitService

\* the event-driven variant: BurstFiles files of one row, which may all be
\* in the directory at one tick of the scan loop
InitBurst ==
    /\ variant = "event"
    /\ maxThreads = 1
    /\ content = [f \in 1..BurstFiles |-> <<DataRow>>]
    /\ watch = "off"
    /\ InitService

\* either variant: one file of any of the row contents, in runs that go on
\* for ever
InitDrain ==
    /\ variant \in {"polling", "event"}
    /\ maxThreads \in MaxThreadsChoices
    /\ content \in [{1} -> RowContents]
    /\ watch = "drain"
    /\ InitService

\* --------------------------------------------------------- scan loop

\* The directory listings: files are named in the order in which they are
\* dropped, so a listing is the first k files (the names carry no meaning,
\* and `content` ranges over every assignment of contents to names).
Listings == {1..k : k \in 0..Cardinality(DOMAIN content)}

\* the scan of a listing that takes every untracked file twice
RECURSIVE newFilesOfTwice(_, _, _)
newFilesOfTwice(listing, lk, f) ==
    IF \A x \in listing : x < f THEN <<>>
    ELSE IF f \in listing /\ ~isFileTracked(lk, f)
    THEN <<f, f>> \o newFilesOfTwice(listing, lk, f + 1)
    ELSE newFilesOfTwice(listing, lk, f + 1)

\* The untracked files of a listing, in directory order (os.ReadDir sorts
\* by name), with the tracking table as it grows during the loop.
RECURSIVE newFilesOf(_, _, _)
newFilesOf(listing, lk, f) ==
    IF \A x \in listing : x < f THEN <<>>
    ELSE IF f \in listing /\ ~isFileTracked(lk, f)
    THEN <<f>> \o newFilesOf(listing, lk, f + 1)
    ELSE newFilesOf(listing, lk, f + 1)

\* lock[file.Name()] = FileLock{NotRead, 0} for every file of the sequence
Register(lk, fs) ==
    [f \in DOMAIN lk \cup {fs[i] : i \in 1..Len(fs)} |->
        IF \E i \in 1..Len(fs) : fs[i] = f THEN FileLock(NotRead, 0) ELSE lk[f]]

\* checkForNewFiles, one tick over one directory listing
checkForNewFiles ==
    /\ ~scanBlocked
    /\ disp["scan"].pc = "idle"
    \* the event variant's select: each iteration starts a fresh timer, so
    \* the tick is taken only when no receive from newFilesEvent is ready
    /\ Len(newFilesEvent) = 0
    /\ \E listing \in Listings :
        LET new == newFilesOf(listing, lock, 1)
            room == NewFilesEventCap - Len(newFilesEvent)
            \* in the event variant the loop stops inside the send that
            \* finds the channel full; the file was registered before it
            done == IF variant = "event" /\ Len(new) > room
                    THEN SubSeq(new, 1, room + 1) ELSE new
            sent == IF variant = "event"
                    THEN SubSeq(new, 1, IF Len(new) > room THEN room ELSE Len(new))
                    ELSE <<>>
        IN  /\ Len(new) > 0
            /\ lock' = Register(lock, done)
            /\ filesQueue' = filesQueue \o done
            /\ newFilesEvent' = newFilesEvent \o sent
            /\ scanBlocked' = (variant = "event" /\ Len(new) > room)
    \* a new file ends the round-robin pass under watch
    /\ passN' = 0
    /\ passPicks' = <<>>
    /\ passClean' = TRUE
    /\ UNCHANGED <<history, config, currentFileIndex, activeWorkers, disp, workers,
                   dispatched, rejected, seqClean>>

\* handleNewFileEvent without its isFileTracked test
handleNewFileEventUnchecked ==
    /\ variant = "event"
    /\ ~scanBlocked
    /\ disp["scan"].pc = "idle"
    /\ Len(newFilesEvent) > 0
    /\ newFilesEvent' = Tail(newFilesEvent)
    /\ IF atCapacity(activeWorkers, maxThreads) \/ ~MayDispatch
       THEN UNCHANGED disp
       ELSE disp' = [disp EXCEPT !["scan"].pc = "pick"]
    /\ UNCHANGED <<history, config, lock, filesQueue, currentFileIndex,
                   activeWorkers, scanBlocked, workers, dispatched, rejected,
                   seqClean, observer>>

\* handleNewFileEvent: the scan loop receives a name from newFilesEvent
handleNewFileEvent ==
    /\ variant = "event"
    /\ ~scanBlocked
    /\ disp["scan"].pc = "idle"
    /\ Len(newFilesEvent) > 0
    /\ LET file == Head(newFilesEvent)
       IN  /\ newFilesEvent' = Tail(newFilesEvent)
           /\ IF isFileTracked(lock, file)
              THEN UNCHANGED disp
              ELSE \* s.processFiles() on the scan goroutine
                   IF atCapacity(activeWorkers, maxThreads) \/ ~MayDispatch
                   THEN UNCHANGED disp
                   ELSE disp' = [disp EXCEPT !["scan"].pc = "pick"]
    /\ UNCHANGED <<history, config, lock, filesQueue, currentFileIndex, activeWorkers,
                   scanBlocked, workers, dispatched, rejected, seqClean,
                   observer>>

\* ------------------------------------------------------ processFiles

\* a tick of the dispatch loop: if s.activeWorkers >= s.maxThreads { return }
processFilesCheck ==
    /\ disp["dispatch"].pc = "idle"
    /\ MayDispatch
    /\ ~atCapacity(activeWorkers, maxThreads)
    /\ disp' = [disp EXCEPT !["dispatch"].pc = "pick"]
    /\ UNCHANGED <<history, config, lock, filesQueue, currentFileIndex, activeWorkers,
                   newFilesEvent, scanBlocked, workers, dispatched, rejected,
                   seqClean, observer>>

\* file := s.pickNextFile()
processFilesPick(g) ==
    /\ disp[g].pc = "pick"
    /\ LET p == pickNextFile(filesQueue, lock, currentFileIndex)
       IN  /\ currentFileIndex' = p.cursor
           /\ IF p.file = NoFile
              THEN /\ disp' = [disp EXCEPT ![g] = IdleDisp]
                   /\ UNCHANGED <<observer, seqClean>>
              ELSE /\ disp' = [disp EXCEPT ![g].pc = "readOff",
                                           ![g].file = p.file]
                   /\ seqClean' = IF watch = "sequence"
                                  THEN seqClean /\ InFlightOn(p.file) = {}
                                  ELSE seqClean
                   /\ IF watch # "passes" THEN UNCHANGED observer
                      ELSE
                      \* the observer either goes on with the pass under
                      \* watch or starts watching a new pass at this pick
                      \/ /\ passN > 0
                         /\ Len(passPicks) < passN
                         /\ passPicks' = Append(passPicks, p.file)
                         /\ UNCHANGED <<passN, passClean>>
                      \/ /\ passN' = Cardinality(NonCompleted(lock))
                         /\ passPicks' = <<p.file>>
                         /\ passClean' = TRUE
    /\ UNCHANGED <<history, config, lock, filesQueue, activeWorkers, newFilesEvent,
                   scanBlocked, workers, dispatched, rejected>>

\* the argument s.lock[file].ReadLinesNumber, read outside the mutex
processFilesReadOffset(g) ==
    /\ disp[g].pc = "readOff"
    /\ disp' = [disp EXCEPT ![g].pc = "mark",
                            ![g].off = lock[disp[g].file].ReadLinesNumber]
    /\ UNCHANGED <<history, config, lock, filesQueue, currentFileIndex, activeWorkers,
                   newFilesEvent, scanBlocked, workers, dispatched, rejected,
                   seqClean, observer>>

\* s.setFileStatus(file, Reading, <offset read>)
processFilesMark(g) ==
    /\ disp[g].pc = "mark"
    /\ lock' = setFileStatus(lock, disp[g].file, Reading, disp[g].off)
    /\ rejected' = (rejected \/ setFileStatusRefuses(lock, disp[g].file, Reading))
    /\ disp' = [disp EXCEPT ![g].pc = "incRead"]
    /\ UNCHANGED <<history, config, filesQueue, currentFileIndex, activeWorkers,
                   newFilesEvent, scanBlocked, workers, dispatched, seqClean,
                   observer>>

\* s.activeWorkers++ : the load
processFilesIncRead(g) ==
    /\ disp[g].pc = "incRead"
    /\ disp' = [disp EXCEPT ![g].pc = "incWrite", ![g].tmp = activeWorkers]
    /\ UNCHANGED <<history, config, lock, filesQueue, currentFileIndex, activeWorkers,
                   newFilesEvent, scanBlocked, workers, dispatched, rejected,
                   seqClean, observer>>

\* id numbers the dispatches of the specification of the sink, k counts the
\* rows of the chunk the worker has appended, exit is the way it left its
\* read ("open": os.Open failed)
NewWorker(file) ==
    [file |-> file, pc |-> "start", off |-> 0, rows |-> <<>>, newOff |-> 0,
     st |-> NotRead, tmp |-> 0, id |-> 0, exit |-> "", k |-> 0]

\* s.activeWorkers++ : the store; then go worker.startProcessing()
processFilesIncWrite(g) ==
    /\ disp[g].pc = "incWrite"
    /\ activeWorkers' = disp[g].tmp + 1
    /\ LET id == IF watch = "sink" THEN dispatched + 1 ELSE 0
       IN  workers' = workers (+)
                SetToBag({[NewWorker(disp[g].file) EXCEPT !.id = id]})
    /\ dispatched' = Count(dispatched)
    /\ disp' = [disp EXCEPT ![g] = IdleDisp]
    /\ UNCHANGED <<history, config, lock, filesQueue, currentFileIndex, newFilesEvent,
                   scanBlocked, rejected, seqClean, observer>>

\* ------------------------------------------------------ Worker.readFile

\* readFile's open failure that returns without its decrement
readFileOpenFailsNoDecrement(w) ==
    /\ w.pc = "start"
    /\ workers' = workers (-) SetToBag({w})
    /\ UNCHANGED <<history, config, lock, filesQueue, currentFileIndex,
                   activeWorkers, newFilesEvent, scanBlocked, disp, dispatched,
                   rejected, seqClean, observer>>

\* os.Open fails: the worker goes straight to its decrement
readFileOpenFails(w) ==
    /\ w.pc = "start"
    /\ Step(w, [w EXCEPT !.pc = "decRead", !.exit = "open"])
    /\ seqClean' = IF watch = "sequence" THEN FALSE ELSE seqClean
    \* the observer notes the file if it is Reading and this worker is the
    \* only goroutine that holds it
    /\ stuck' = IF /\ watch = "errors"
                   /\ lock[w.file].Status = Reading
                   /\ InFlightCountOn(w.file) = 1
                   /\ \A g \in Goroutines : disp[g].file # w.file
                THEN stuck \cup {w.file} ELSE stuck
    /\ UNCHANGED <<resultFile, decrements, config, lock, filesQueue, currentFileIndex, activeWorkers,
                   newFilesEvent, scanBlocked, disp, dispatched, rejected,
                   observer>>

\* os.Open succeeds; readLines := s.lock[w.file].ReadLinesNumber (outside
\* the mutex); the read loop runs on the worker's own file handle
readFileRead(w) ==
    /\ w.pc = "start"
    /\ LET off == lock[w.file].ReadLinesNumber
           c == readChunk(variant, content[w.file], off)
           \* w.appendToResultFile(results): its writes are steps of the
           \* specification of the sink
           pc == IF watch = "sink" /\ Len(c.rows) > 0 THEN "append" ELSE "set"
       IN  Step(w, [w EXCEPT !.pc = pc, !.off = off, !.rows = c.rows,
                             !.newOff = c.newOff, !.st = c.st,
                             !.exit = c.exit])
    /\ UNCHANGED <<history, config, lock, filesQueue, currentFileIndex, activeWorkers,
                   newFilesEvent, scanBlocked, disp, dispatched, rejected,
                   seqClean, observer>>

\* appendToResultFile: one fmt.Fprintf(file, ...) of the loop over the chunk,
\* a write of one row at the end of the result file (O_APPEND)
appendToResultFile(w) ==
    /\ w.pc = "append"
    /\ resultFile' = Append(resultFile,
                            [chunk |-> w.id, file |-> w.file, row |-> w.rows[w.k + 1]])
    /\ Step(w, [w EXCEPT !.k = w.k + 1,
                         !.pc = IF w.k + 1 = Len(w.rows) THEN "set" ELSE "append"])
    /\ UNCHANGED <<decrements, stuck, config, lock, filesQueue,
                   currentFileIndex, activeWorkers, newFilesEvent, scanBlocked,
                   disp, dispatched, rejected, seqClean, observer>>

\* w.service.setFileStatus(w.file, Completed | NotRead, <new offset>)
readFileSetStatus(w) ==
    /\ w.pc = "set"
    /\ LET lk2 == setFileStatus(lock, w.file, w.st, w.newOff)
       IN  /\ lock' = lk2
           /\ ObserveLock(lk2)
           /\ rejected' = (rejected \/ setFileStatusRefuses(lock, w.file, w.st))
    /\ Step(w, [w EXCEPT !.pc = "decRead"])
    /\ UNCHANGED <<history, config, filesQueue, currentFileIndex, activeWorkers,
                   newFilesEvent, scanBlocked, disp, dispatched, seqClean,
                   passN, passPicks>>

\* w.service.activeWorkers-- : the load
readFileDecRead(w) ==
    /\ w.pc = "decRead"
    /\ Step(w, [w EXCEPT !.pc = "decWrite", !.tmp = activeWorkers])
    /\ UNCHANGED <<history, config, lock, filesQueue, currentFileIndex, activeWorkers,
                   newFilesEvent, scanBlocked, disp, dispatched, rejected,
                   seqClean, observer>>

\* w.service.activeWorkers-- : the store; readFile returns
readFileDecWrite(w) ==
    /\ w.pc = "decWrite"
    /\ activeWorkers' = w.tmp - 1
    /\ workers' = workers (-) SetToBag({w})
    /\ decrements' = Count(decrements)
    /\ UNCHANGED <<resultFile, stuck, config, lock, filesQueue, currentFileIndex, newFilesEvent,
                   scanBlocked, disp, dispatched, rejected, seqClean, observer>>

\* ------------------------------------------------------------- Next

\* polling variant: the scan loop, the dispatch loop and the workers
Next ==
    \/ checkForNewFiles
    \/ processFilesCheck
    \/ \E g \in Goroutines : processFilesPick(g)
    \/ \E g \in Goroutines : processFilesReadOffset(g)
    \/ \E g \in Goroutines : processFilesMark(g)
    \/ \E g \in Goroutines : processFilesIncRead(g)
    \/ \E g \in Goroutines : processFilesIncWrite(g)
    \/ \E w \in Running : readFileOpenFails(w)
    \/ \E w \in Running : readFileRead(w)
    \/ \E w \in Running : readFileSetStatus(w)
    \/ \E w \in Running : readFileDecRead(w)
    \/ \E w \in Running : readFileDecWrite(w)

\* the event-driven variant: its scan loop also receives from newFilesEvent
NextEvent ==
    \/ Next
    \/ handleNewFileEvent

Spec == Init /\ [][Next]_vars

SpecRows == InitRows /\ [][Next]_vars

SpecEvent == InitEvent /\ [][NextEvent]_vars

SpecRR == InitRR /\ [][Next]_vars

\* the service with the writes to the result file as steps
NextSink ==
    \/ Next
    \/ \E w \in Running : appendToResultFile(w)

SpecSink == InitSink /\ [][NextSink]_vars

SpecErr == InitErr /\ [][Next]_vars

SpecBurst == InitBurst /\ [][NextEvent]_vars

\* the goroutines of the service when no os.Open fails
ScanLoop == checkForNewFiles \/ handleNewFileEvent

DispatchLoop ==
    \/ processFilesCheck
    \/ \E g \in Goroutines : processFilesPick(g)
    \/ \E g \in Goroutines : processFilesReadOffset(g)
    \/ \E g \in Goroutines : processFilesMark(g)
    \/ \E g \in Goroutines : processFilesIncRead(g)
    \/ \E g \in Goroutines : processFilesIncWrite(g)

WorkerRuns ==
    \/ \E w \in Running : readFileRead(w)
    \/ \E w \in Running : readFileSetStatus(w)
    \/ \E w \in Running : readFileDecRead(w)
    \/ \E w \in Running : readFileDecWrite(w)

NextDrain == ScanLoop \/ DispatchLoop \/ WorkerRuns

\* every loop keeps ticking and every started worker runs to its end
SpecDrain ==
    /\ InitDrain
    /\ [][NextDrain]_vars
    /\ WF_vars(ScanLoop) /\ WF_vars(DispatchLoop) /\ WF_vars(WorkerRuns)

\* ================================================================ claims

ReadingFiles == {f \in DOMAIN lock : lock[f].Status = Reading}

\* the elements of a sequence are pairwise different
Distinct(s) == \A i, j \in 1..Len(s) : i # j => s[i] # s[j]

Range(s) == {s[i] : i \in 1..Len(s)}

Min(a, b) == IF a < b THEN a ELSE b

\* positions of the records of a file that have a non-empty field
NonBlank(recs) == {i \in 1..Len(recs) : ~(Range(recs[i]) \subseteq {""})}

\* a worker has read its chunk and is about to call setFileStatus
AtSet(w) == w.pc = "set"

\* C1: no file ever has more than one worker in flight.
\* (polling variant, Spec.)  Violated: pickNextFile returns a file that is Reading.
C1_OneWorkerPerFile == \A f \in DOMAIN lock : InFlightCountOn(f) <= 1

\* C2: the activeWorkers counter never exceeds maxThreads, whatever the
\* interleaving of the dispatch loop's check and increment with the
\* workers' unsynchronised decrements.  (polling variant, Spec.)
C2_ActiveWorkersBounded == activeWorkers <= maxThreads

\* C2 witness: the counter is at the ceiling through an increment stored
\* while a worker is between the load and the store of its decrement.
C2_Witness ==
    /\ activeWorkers = maxThreads
    /\ \E w \in Running : w.pc = "decWrite" /\ w.tmp < activeWorkers

\* C3: the number of workers in flight never exceeds maxThreads.
\* (polling variant, Spec.)  Violated: a worker's stale store erases an increment.
C3_InFlightBounded == InFlightCount <= maxThreads

\* C4: no step lowers the offset stored for a tracked file.  Stated for
\* the runs in which every dispatch found no worker in flight on its file
\* and no open failed, so that no race is needed to refute it.
\* (polling variant, SpecRows.)  Violated: readFile adds the collected rows to the
\* skip counter it has just counted down.
C4_OffsetMonotonic ==
    [][seqClean =>
          \A f \in DOMAIN lock :
              lock'[f].ReadLinesNumber >= lock[f].ReadLinesNumber]_vars

\* a step that is a setFileStatus call for file f with a status other than
\* Completed: the dispatch loop's mark, or a worker's NotRead
NonCompletedCallOn(f) ==
    \/ \E g \in Goroutines :
          /\ disp[g].pc = "mark" /\ disp[g].file = f
          /\ disp'[g].pc = "incRead"
    \/ \E w \in Running :
          /\ w.pc = "set" /\ w.file = f /\ w.st # Completed
          /\ workers' = (workers (-) SetToBag({w}))
                            (+) SetToBag({[w EXCEPT !.pc = "decRead"]})

\* C5: Completed is terminal: a Completed file stays Completed in every
\* step, and a setFileStatus call with another status leaves its record as
\* it was.  (polling variant, Spec.)
C5_CompletedTerminal ==
    [][\A f \in DOMAIN lock :
          lock[f].Status = Completed =>
              /\ lock'[f].Status = Completed
              /\ NonCompletedCallOn(f) => lock'[f] = lock[f]]_vars

\* C5 witness: setFileStatus has refused a call on a Completed file.
C5_Witness == rejected /\ \E f \in DOMAIN lock : lock[f].Status = Completed

\* C6 as claimed: the picks of a pass of N picks, N the number of
\* non-Completed files when the pass starts and no file added during it,
\* are N different files.  (polling variant, SpecRR.)  Violated: a file that
\* becomes Completed during the pass is skipped and another is picked twice.
C6_RoundRobinAsClaimed == passN > 0 => Distinct(passPicks)

\* C6 amended: if moreover no file becomes Completed during the pass, its
\* picks are different files, and a full pass has picked every
\* non-Completed file.
C6_RoundRobin ==
    (passN > 0 /\ passClean) =>
        /\ Distinct(passPicks)
        /\ Len(passPicks) = passN => Range(passPicks) = NonCompleted(lock)

\* C6 witness: a full pass over two files that started in mid-queue.
C6_Witness ==
    /\ passN >= 2 /\ passClean /\ Len(passPicks) = passN
    /\ passPicks[1] = filesQueue[2]

\* C7: a worker that read offset o from the table and can collect c rows,
\* c the smaller of the chunk size and the rows left after the first o,
\* writes o + c.  Stated for files without blank records and for workers
\* that ran one at a time on their file.
\* (polling variant, SpecRows.)  Violated: it writes c once o rows were skipped.
C7_OffsetRule ==
    \A w \in Running :
        (/\ AtSet(w)
         /\ seqClean
         /\ NonBlank(content[w.file]) = 1..Len(content[w.file])) =>
            LET left == Len(content[w.file]) - w.off
                c == IF left < 0 THEN 0 ELSE Min(MAX_CHUNK_SIZE, left)
            IN  w.newOff = w.off + c

\* every dispatch so far ran alone on its file and has returned
Sequential ==
    /\ seqClean
    /\ workers = EmptyBag
    /\ \A g \in Goroutines : disp[g].pc = "idle"

\* C8: a file of k full chunks of data rows, dispatched one worker at a
\* time, is NotRead with offset d * chunk after d <= k dispatches and
\* Completed with offset k * chunk after dispatch k + 1.
\* (polling variant, SpecRows.)  Violated: its offset stays at one chunk.
C8_LateCompletion ==
    \A f \in DOMAIN lock :
        LET n == Len(content[f])
            k == n \div MAX_CHUNK_SIZE
        IN  (/\ Sequential
             /\ DOMAIN lock = {f}
             /\ NonBlank(content[f]) = 1..n
             /\ n % MAX_CHUNK_SIZE = 0) =>
                /\ dispatched <= k =>
                      lock[f] = FileLock(NotRead, dispatched * MAX_CHUNK_SIZE)
                /\ dispatched = k + 1 => lock[f] = FileLock(Completed, n)

\* C9: blank records never count.  The rows a worker collects are non-blank
\* records in file order, exactly `offset` non-blank records precede the
\* first of them, no non-blank record is left out between two of them, and
\* they are as many as the chunk size and the file allow; a file of blank
\* records only is Completed with offset 0 by its first dispatch.
\* (event variant, SpecEvent.)
C9_BlankRowsNeverCount ==
    /\ \A w \in Running :
          AtSet(w) =>
              LET nb == NonBlank(content[w.file])
                  left == Cardinality(nb) - w.off
                  r == w.rows
              IN  /\ Range(r) \subseteq nb
                  /\ \A i \in 1..(Len(r) - 1) :
                        /\ r[i] < r[i + 1]
                        /\ \A p \in nb : ~(r[i] < p /\ p < r[i + 1])
                  /\ Len(r) > 0 => Cardinality({p \in nb : p < r[1]}) = w.off
                  /\ Len(r) = (IF left < 0 THEN 0 ELSE Min(MAX_CHUNK_SIZE, left))
                  /\ w.newOff = w.off + Len(r)
    /\ \A f \in DOMAIN lock :
          (NonBlank(content[f]) = {} /\ Sequential /\ dispatched >= 1
              /\ DOMAIN lock = {f}) =>
                lock[f] = FileLock(Completed, 0)

\* C9 witness: a worker that skipped three non-blank records over the blank
\* ones and collected the last two, with a blank record between them.
C9_Witness ==
    \E w \in Running :
        /\ AtSet(w) /\ w.off = 3 /\ w.rows = <<6, 8>>
        /\ content[w.file][7] = BlankRow

\* C10: the files whose status is Reading are never more than maxThreads.
\* (polling variant, Spec.)  Violated: a worker whose open fails frees its slot and
\* leaves its file Reading.
C10_ReadingBounded == Cardinality(ReadingFiles) <= maxThreads

\* the step in which worker w calls setFileStatus
SetStepOf(w) ==
    /\ w.pc = "set"
    /\ workers' = (workers (-) SetToBag({w}))
                      (+) SetToBag({[w EXCEPT !.pc = "decRead"]})

\* the step in which goroutine g, in processFiles, calls setFileStatus
MarkStepOf(g) == disp[g].pc = "mark" /\ disp'[g].pc = "incRead"

\* C11: the rows of one chunk are one contiguous block of the result file:
\* no row of another chunk lies between two rows of the same chunk.
\* (polling variant, SpecSink.)  Violated: appendToResultFile writes the chunk
\* with one Fprintf per row and no lock, so two workers' rows alternate.
C11_ChunksContiguous ==
    \A i, j, k \in 1..Len(resultFile) :
        (i < j /\ j < k /\ resultFile[i].chunk = resultFile[k].chunk) =>
            resultFile[j].chunk = resultFile[i].chunk

\* a goroutine's next step reads the record of f outside s.mu: the
\* argument of processFiles' setFileStatus call, or readFile's readLines
ReadsOutsideMu(f) ==
    \/ \E g \in Goroutines : disp[g].pc = "readOff" /\ disp[g].file = f
    \/ \E w \in Running : w.pc = "start" /\ w.file = f

\* a goroutine's next step is a setFileStatus call on f
WritesRecord(f) ==
    \/ \E g \in Goroutines : disp[g].pc = "mark" /\ disp[g].file = f
    \/ \E w \in Running : w.pc = "set" /\ w.file = f

\* C12: every access to the tracking table is made under s.mu, so no read
\* of a record can overlap another goroutine's write of it: there is no
\* state in which one goroutine is about to read a record outside s.mu and
\* another is about to write it.  (polling variant, Spec.)  Violated:
\* processFiles and readFile read s.lock[file].ReadLinesNumber unlocked.
C12_MutexDiscipline ==
    \A f \in DOMAIN lock : ~(ReadsOutsideMu(f) /\ WritesRecord(f))

\* C13: a file's status changes only NotRead -> Reading, Reading -> NotRead
\* or Reading -> Completed; the dispatch loop never writes the record of a
\* Reading file and a worker never writes the record of a NotRead file.
\* (polling variant, Spec.)  Violated: processFiles marks a file that is
\* already Reading.
C13_Transitions ==
    [][\A f \in DOMAIN lock :
          /\ lock'[f].Status # lock[f].Status =>
                <<lock[f].Status, lock'[f].Status>> \in
                    {<<NotRead, Reading>>, <<Reading, NotRead>>,
                     <<Reading, Completed>>}
          /\ (\E g \in Goroutines : MarkStepOf(g) /\ disp[g].file = f) =>
                lock[f].Status # Reading
          /\ (\E w \in Running : SetStepOf(w) /\ w.file = f) =>
                lock[f].Status # NotRead]_vars

\* C14: once a worker has failed to open a file that no other goroutine
\* holds, the file's record never changes again and pickNextFile never
\* returns the file again.  (polling variant, SpecErr.)  Violated: the
\* file is Reading, not Completed, so the next tick picks it.
C14_NoRecovery ==
    [][\A f \in stuck :
          /\ lock'[f] = lock[f]
          /\ \A g \in Goroutines :
                disp'[g].file = f => disp[g].file = f]_vars

\* s is a prefix of t
IsPrefix(s, t) == Len(s) <= Len(t) /\ SubSeq(t, 1, Len(s)) = s

\* C15: a scan tick leaves the record of every tracked file as it was and
\* appends no tracked file to the queue: the queue only grows at its end
\* and never holds a file twice.  (polling variant, SpecRR.)
C15_RediscoveryIdempotent ==
    [][filesQueue' # filesQueue =>
          /\ \A f \in DOMAIN lock : lock'[f] = lock[f]
          /\ IsPrefix(filesQueue, filesQueue')
          /\ Distinct(filesQueue')]_vars

\* C15 witness: a scan tick has added the second file after the first had
\* been picked, and the first file's record shows its progress.
C15_Witness ==
    /\ passN = 0 /\ dispatched >= 1
    /\ Len(filesQueue) = 2
    /\ lock[filesQueue[1]].Status = Completed
    /\ lock[filesQueue[2]] = FileLock(NotRead, 0)

\* C16: every readFile that has returned has executed activeWorkers-- once:
\* the decrements executed and the workers still in flight add up to the
\* dispatches.  (polling variant, SpecErr.)
C16_OneDecrementPerDispatch == decrements + InFlightCount = dispatched

\* C16 witness: a worker whose read loop ended on a parse error is in its
\* decrement, after another worker has returned.
C16_Witness ==
    /\ decrements >= 1
    /\ \E w \in Running : w.pc = "decWrite" /\ w.exit = "error"

\* the probes, counted from the cursor, that find a file not Completed
Eligible(q, lk, cur) ==
    {i \in 0..(Len(q) - 1) : lk[q[((cur + i) % Len(q)) + 1]].Status # Completed}

\* the least element of a non-empty set of naturals
Least(S) == CHOOSE i \in S : \A j \in S : i <= j

\* C17: pickNextFile returns the first file, in circular order from the
\* cursor, that is not Completed, and sets the cursor to the position after
\* it, modulo the queue length; with an empty queue or every file Completed
\* it returns none and leaves the cursor.  (polling variant, SpecRR.)
C17_PickNextFile ==
    [][\A g \in Goroutines :
          (disp[g].pc = "pick" /\ disp'[g].pc # "pick") =>
              LET n == Len(filesQueue)
                  E == Eligible(filesQueue, lock, currentFileIndex)
              IN  IF n = 0 \/ E = {}
                  THEN /\ disp'[g].pc = "idle"
                       /\ currentFileIndex' = currentFileIndex
                  ELSE LET pos == (currentFileIndex + Least(E)) % n
                       IN  /\ disp'[g].pc = "readOff"
                           /\ disp'[g].file = filesQueue[pos + 1]
                           /\ currentFileIndex' = (pos + 1) % n]_vars

\* C17 witness: two picks in a row of the first of two files: the second
\* started at the second file, found it Completed and wrapped around.
C17_Witness ==
    /\ Len(filesQueue) = 2 /\ passN = 2 /\ Len(passPicks) = 2
    /\ passPicks[1] = filesQueue[1] /\ passPicks[2] = filesQueue[1]
    /\ currentFileIndex = 1

\* C18: the step in which processFiles marks a file leaves the file's
\* offset as it was.  (polling variant, Spec.)  Violated: the offset passed
\* to setFileStatus was read before the call, outside s.mu, and a worker's
\* setFileStatus came in between.
C18_DispatchKeepsOffset ==
    [][\A g \in Goroutines :
          MarkStepOf(g) =>
              lock'[disp[g].file].ReadLinesNumber =
                  lock[disp[g].file].ReadLinesNumber]_vars

\* C19: every scan tick returns, whatever the number of new files in its
\* listing: the scan loop is never stopped inside checkForNewFiles.
\* (event variant, SpecBurst.)  Violated: the send of the eleventh new file
\* of one listing blocks, and the only receiver is the blocked loop.
C19_ScanTickReturns == ~scanBlocked

\* C20: a worker whose read loop ended on a parse error leaves the record
\* of its file as it was.  (polling variant, SpecErr.)  Violated: the error
\* only breaks the loop; the worker then marks the file Completed.
C20_ReadErrorLeavesRecord ==
    [][\A w \in Running :
          (SetStepOf(w) /\ w.exit = "error") =>
              lock'[w.file] = lock[w.file]]_vars

\* C21: the queue is append-only and mirrors the tracking table: every step
\* keeps the queue as a prefix of the new queue, and the new queue holds
\* every key of the table once and nothing else.
\* (event variant, SpecBurst.)
C21_QueueMirrorsTable ==
    [][/\ IsPrefix(filesQueue, filesQueue')
       /\ Distinct(filesQueue')
       /\ Range(filesQueue') = DOMAIN lock']_vars

\* C21 witness: every file of the directory is tracked, after more than one
\* scan tick and with a file Completed.
C21_Witness ==
    /\ ~scanBlocked
    /\ Len(filesQueue) = BurstFiles
    /\ \E f \in DOMAIN lock : lock[f].Status = Completed

\* C23: a Completed file's offset is the number of its non-blank rows.
\* Stated for files of data rows only and for the runs in which every
\* dispatch found no worker in flight on its file and no open failed.
\* (polling variant, SpecRows.)  Violated: the last dispatch stores the
\* number of rows of the last chunk.
C23_CompletedOffsetIsRowCount ==
    \A f \in DOMAIN lock :
        (/\ seqClean
         /\ NonBlank(content[f]) = 1..Len(content[f])
         /\ lock[f].Status = Completed) =>
            lock[f].ReadLinesNumber = Cardinality(NonBlank(content[f]))

\* C24: no row of a file is written to the result file twice.
\* (polling variant, SpecSink.)  Violated: two workers dispatched on the
\* same file read the same offset and append the same rows.
C24_NoDuplicateOutput ==
    \A i, j \in 1..Len(resultFile) :
        (i # j /\ resultFile[i].file = resultFile[j].file) =>
            resultFile[i].row # resultFile[j].row

\* C25: with no worker in flight and no goroutine inside processFiles,
\* activeWorkers is 0.  (polling variant, Spec.)  Violated: a worker's
\* decrement stored between the load and the store of an increment is lost.
C25_NoDrift ==
    (workers = EmptyBag /\ \A g \in Goroutines : disp[g].pc = "idle") =>
        activeWorkers = 0

\* C26: the scan loop is never inside processFiles: handleNewFileEvent
\* finds every announced file tracked and returns before its processFiles
\* call.  (event variant, SpecBurst.)
C26_SingleDispatcher == disp["scan"].pc = "idle"

\* C26 witness: the scan loop has handled some of the announced files and
\* not yet the others, while the dispatch loop is inside processFiles.
C26_Witness ==
    /\ Len(newFilesEvent) > 0
    /\ Len(filesQueue) > Len(newFilesEvent)
    /\ disp["dispatch"].pc = "mark"

\* C22: under fair scheduling, with no open failure and one worker at a
\* time, every file of the directory is eventually Completed, whatever its
\* number of rows.  (both variants, SpecDrain.)  Violated in the polling
\* variant: a file of two chunks or more is read at offset one chunk for
\* ever.
C22_DrainLiveness ==
    <>(\A f \in DOMAIN content :
          f \in DOMAIN lock /\ lock[f].Status = Completed)

====
